---- MODULE Spec2Model ----
(***************************************************************************)
(* Model of rdf-tools-tutorial.ipynb: RDF graphs built by parsing JSON-LD  *)
(* and Turtle documents, three SPARQL CONSTRUCT queries over the position  *)
(* graph, and SHACL validation of the data graphs against shacl_str.       *)
(*                                                                         *)
(* A term is a 4-tuple of strings <<kind, namespace, local, lexical>>.     *)
(* A triple is <<s, p, o>>; a graph is a set of triples.                   *)
(***************************************************************************)
EXTENDS Integers, Sequences, FiniteSets, TLC

VARIABLES position_graph, invalid_graph, shacl_g, bnodes,
          q_res, conforms, report, last

vars == <<position_graph, invalid_graph, shacl_g, bnodes,
          q_res, conforms, report, last>>

(***************************************************************************)
(* Namespaces                                                              *)
(***************************************************************************)
GEOM == "https://my-url.com/metamodel/geometry#"

TUTORIAL == "https://my-url.com/model/tutorial/"

XSD == "http://www.w3.org/2001/XMLSchema#"

SH == "http://www.w3.org/ns/shacl#"

RDF == "http://www.w3.org/1999/02/22-rdf-syntax-ns#"

RDFS == "http://www.w3.org/2000/01/rdf-schema#"

(***************************************************************************)
(* Terms                                                                   *)
(***************************************************************************)
IRI(ns, local) == <<"iri", ns, local, "">>

Literal(lex, datatype) == <<"lit", datatype[2], datatype[3], lex>>

BNode(label) == <<"bnode", "_:", label, "">>

Var(name) == <<"var", "?", name, "">>

IsVar(t) == t[1] = "var"

rdf_type == IRI(RDF, "type")

Geom(local) == IRI(GEOM, local)

Node(local) == IRI(TUTORIAL, local)

Sh(local) == IRI(SH, local)

(***************************************************************************)
(* Bounds                                                                  *)
(***************************************************************************)
\* Blank nodes the parsers may mint in one behaviour.
MaxBNodes == 2

\* Labels of the blank nodes, in the order they are minted.
BNodeLabel(n) == CASE n = 1 -> "b1" [] n = 2 -> "b2" [] n = 3 -> "b3"
                   [] n = 4 -> "b4" [] OTHER -> "b5"

(***************************************************************************)
(* JSON-LD documents.  A compact IRI "p:l" is the pair <<"p", "l">>; a     *)
(* term definition {"@id": .., "@type": ..} is [id, type], where type is   *)
(* <<"@", "id">> for "@id" or the compact IRI of a datatype.               *)
(***************************************************************************)
IdTerm(cid) == [id |-> cid, type |-> <<"@", "id">>]

DoubleTerm(cid) == [id |-> cid, type |-> <<"xsd", "double">>]

NodeObject(id, types, props) == [id |-> id, types |-> types, props |-> props]

jsonld_graph_str ==
  [ format     |-> "json-ld",
    wellformed |-> TRUE,
    base       |-> TUTORIAL,
    prefixes   |-> [xsd |-> XSD, geom |-> GEOM],
    terms      |-> ("of-point" :> IdTerm(<<"geom", "of-point">>))
                   @@ ("wrt-point" :> IdTerm(<<"geom", "with-respect-to-point">>))
                   @@ ("of-position" :> IdTerm(<<"geom", "of-position">>))
                   @@ ("length" :> DoubleTerm(<<"geom", "length">>)),
    graph      |-> <<
      NodeObject("box-origin", {<<"geom", "Point">>}, {}),
      NodeObject("table-origin", {<<"geom", "Point">>}, {}),
      NodeObject("position-box-table", {<<"geom", "Position">>},
                 {<<"of-point", "box-origin">>, <<"wrt-point", "table-origin">>}),
      NodeObject("box-distance", {<<"geom", "PositionLength">>},
                 {<<"of-position", "position-box-table">>, <<"length", "10">>})
    >> ]

\* The context both coordinate documents share: no "xsd" prefix is declared.
CoordinateContextTerms ==
  ("origin" :> IdTerm(<<"geom", "origin">>))
  @@ ("of-position" :> IdTerm(<<"geom", "of-position">>))
  @@ ("as-seen-by" :> IdTerm(<<"geom", "as-seen-by">>))
  @@ ("x" :> DoubleTerm(<<"geom", "x">>))
  @@ ("y" :> DoubleTerm(<<"geom", "y">>))
  @@ ("z" :> DoubleTerm(<<"geom", "z">>))

CoordinateTypes ==
  {<<"geom", "PositionReference">>, <<"geom", "PositionCoordinate">>,
   <<"geom", "VectorXYZ">>}

jsonld_coordinate_extension ==
  [ format     |-> "json-ld",
    wellformed |-> TRUE,
    base       |-> TUTORIAL,
    prefixes   |-> [geom |-> GEOM],
    terms      |-> CoordinateContextTerms,
    graph      |-> <<
      NodeObject("frame-table", {<<"geom", "Frame">>},
                 {<<"origin", "table-origin">>}),
      NodeObject("position-coord-box-table", CoordinateTypes,
                 {<<"of-position", "position-box-table">>,
                  <<"as-seen-by", "frame-table">>,
                  <<"x", "-0.000648">>, <<"y", "-0.000166">>,
                  <<"z", "0.084487">>})
    >> ]

jsonld_coordinate_invalid ==
  [ format     |-> "json-ld",
    wellformed |-> TRUE,
    base       |-> TUTORIAL,
    prefixes   |-> [geom |-> GEOM],
    terms      |-> CoordinateContextTerms,
    graph      |-> <<
      NodeObject("frame-table", {<<"geom", "Frame">>},
                 {<<"origin", "table-origin">>}),
      NodeObject("position-coord-box-table", CoordinateTypes,
                 {<<"of-position", "frame-table">>})
    >> ]

\* The coordinate extension cut off before its closing brace: not JSON.
jsonld_truncated ==
  [jsonld_coordinate_extension EXCEPT !.wellformed = FALSE]

(***************************************************************************)
(* JSON-LD to RDF                                                          *)
(***************************************************************************)
\* Compact IRI expansion: a declared prefix is replaced by its namespace;
\* an undeclared one leaves "p:l" as it is, an absolute IRI of scheme p.
ExpandIri(prefixes, cid) ==
  IF cid[1] \in DOMAIN prefixes
    THEN IRI(prefixes[cid[1]], cid[2])
    ELSE IRI(cid[1] \o ":", cid[2])

\* The object of a property: a node reference when the term is typed "@id",
\* otherwise a literal of the term's datatype.
JsonLdValue(doc, def, value) ==
  IF def.type = <<"@", "id">>
    THEN IRI(doc.base, value)
    ELSE Literal(value, ExpandIri(doc.prefixes, def.type))

\* Triples of one node object; a key the context does not define is dropped.
JsonLdNodeTriples(doc, node) ==
  LET subject == IRI(doc.base, node.id)
  IN  {<<subject, rdf_type, ExpandIri(doc.prefixes, t)>> : t \in node.types}
      \cup
      {<<subject, ExpandIri(doc.prefixes, doc.terms[kv[1]].id),
         JsonLdValue(doc, doc.terms[kv[1]], kv[2])>> :
         kv \in {x \in node.props : x[1] \in DOMAIN doc.terms}}

JsonLdTriples(doc) ==
  UNION {JsonLdNodeTriples(doc, doc.graph[i]) : i \in DOMAIN doc.graph}

(***************************************************************************)
(* Turtle documents.  A document is its @prefix map and its statements in  *)
(* document order; the terms of a statement are still in source form:      *)
(*   <<"pname", p, l, "">>   the prefixed name p:l                         *)
(*   <<"a", "", "", "">>     the keyword a                                 *)
(*   <<"integer", "", "", n>>  the bare integer n                          *)
(*   <<"typed", p, l, lex>>  the literal "lex"^^p:l                        *)
(*   <<"anon", "", k, "">>   the k-th [ ... ] of the document              *)
(***************************************************************************)
PName(p, l) == <<"pname", p, l, "">>

KeywordA == <<"a", "", "", "">>

Integer(lex) == <<"integer", "", "", lex>>

Typed(lex, p, l) == <<"typed", p, l, lex>>

Anon(k) == <<"anon", "", k, "">>

AnonIndex == [anon1 |-> 1, anon2 |-> 2]

\* The statements of one property shape: sh:path, sh:class, sh:minCount 1,
\* sh:maxCount 1.
PropertyShapeBody(subject, path, class) ==
  << <<subject, PName("sh", "path"), PName("geom", path)>>,
     <<subject, PName("sh", "class"), PName("geom", class)>>,
     <<subject, PName("sh", "minCount"), Integer("1")>>,
     <<subject, PName("sh", "maxCount"), Integer("1")>> >>

NodeShapeHead(shape, class) ==
  << <<PName("geom", shape), KeywordA, PName("sh", "NodeShape")>>,
     <<PName("geom", shape), PName("sh", "targetClass"), PName("geom", class)>> >>

shacl_str ==
  [ format     |-> "turtle",
    prefixes   |-> [sh |-> SH, geom |-> GEOM],
    anons      |-> 1,
    statements |->
      NodeShapeHead("PositionReferenceShape", "PositionReference")
      \o PropertyShapeBody(Anon("anon1"), "of-position", "Position")
      \o << <<PName("geom", "PositionReferenceShape"), PName("sh", "property"),
              Anon("anon1")>> >>
      \o << <<PName("geom", "AsSeenByShape"), KeywordA,
              PName("sh", "PropertyShape")>> >>
      \o PropertyShapeBody(PName("geom", "AsSeenByShape"), "as-seen-by", "Frame")
      \o NodeShapeHead("PositionCoordinateShape", "PositionCoordinate")
      \o << <<PName("geom", "PositionCoordinateShape"), PName("sh", "property"),
              PName("geom", "AsSeenByShape")>> >> ]

\* shacl_str with geom:AsSeenByShape written inline in the node shape that
\* refers to it.
shacl_inline ==
  [ format     |-> "turtle",
    prefixes   |-> [sh |-> SH, geom |-> GEOM],
    anons      |-> 2,
    statements |->
      NodeShapeHead("PositionReferenceShape", "PositionReference")
      \o PropertyShapeBody(Anon("anon1"), "of-position", "Position")
      \o << <<PName("geom", "PositionReferenceShape"), PName("sh", "property"),
              Anon("anon1")>> >>
      \o NodeShapeHead("PositionCoordinateShape", "PositionCoordinate")
      \o PropertyShapeBody(Anon("anon2"), "as-seen-by", "Frame")
      \o << <<PName("geom", "PositionCoordinateShape"), PName("sh", "property"),
              Anon("anon2")>> >> ]

\* A property shape for geom:origin whose count is written "1"^^xsd:integer
\* and which, like the coordinate documents, does not declare the xsd prefix.
shacl_undeclared_xsd ==
  [ format     |-> "turtle",
    prefixes   |-> [sh |-> SH, geom |-> GEOM],
    anons      |-> 0,
    statements |->
      << <<PName("geom", "OriginShape"), KeywordA, PName("sh", "PropertyShape")>>,
         <<PName("geom", "OriginShape"), PName("sh", "path"),
           PName("geom", "origin")>>,
         <<PName("geom", "OriginShape"), PName("sh", "class"),
           PName("geom", "Point")>>,
         <<PName("geom", "OriginShape"), PName("sh", "minCount"),
           Typed("1", "xsd", "integer")>>,
         <<PName("geom", "OriginShape"), PName("sh", "maxCount"),
           Integer("1")>> >> ]

(***************************************************************************)
(* Turtle to RDF                                                           *)
(***************************************************************************)
\* A prefixed name can be resolved only if its prefix was declared.
TurtleResolvable(prefixes, t) ==
  t[1] \in {"pname", "typed"} => t[2] \in DOMAIN prefixes

\* The term a source term denotes; n blank nodes were minted before this parse.
TurtleTerm(prefixes, t, n) ==
  CASE t[1] = "pname"   -> IRI(prefixes[t[2]], t[3])
    [] t[1] = "a"       -> rdf_type
    [] t[1] = "integer" -> Literal(t[4], IRI(XSD, "integer"))
    [] t[1] = "typed"   -> Literal(t[4], IRI(prefixes[t[2]], t[3]))
    [] t[1] = "anon"    -> BNode(BNodeLabel(n + AnonIndex[t[3]]))

(***************************************************************************)
(* Graph store                                                             *)
(***************************************************************************)
\* Graph.add: the store is a set, so an existing triple is not added again.
Add(g, triple) == g \cup {triple}

RECURSIVE AddAll(_, _)
AddAll(g, triples) ==
  IF triples = {} THEN g
  ELSE LET t == CHOOSE x \in triples : TRUE
       IN  AddAll(Add(g, t), triples \ {t})

\* The Turtle parser hands each statement to the graph as soon as it has read
\* it and stops at the first statement it cannot resolve: what was read
\* before the error is already in the graph.
RECURSIVE TurtleFeed(_, _, _, _)
TurtleFeed(g, doc, i, n) ==
  IF i > Len(doc.statements)
    THEN [graph |-> g, error |-> FALSE]
    ELSE LET st == doc.statements[i]
         IN  IF \A k \in 1..3 : TurtleResolvable(doc.prefixes, st[k])
               THEN TurtleFeed(Add(g, <<TurtleTerm(doc.prefixes, st[1], n),
                                        TurtleTerm(doc.prefixes, st[2], n),
                                        TurtleTerm(doc.prefixes, st[3], n)>>),
                               doc, i + 1, n)
               ELSE [graph |-> g, error |-> TRUE]

\* JsonLdFeed that loads the document in place of what the graph held.
JsonLdFeed_Replace(g, doc) ==
  IF doc.wellformed
    THEN [graph |-> AddAll({}, JsonLdTriples(doc)), error |-> FALSE]
    ELSE [graph |-> g, error |-> TRUE]

\* JsonLdFeed that rejects a context whose datatypes use an undeclared prefix.
JsonLdFeed_Strict(g, doc) ==
  IF /\ doc.wellformed
     /\ \A k \in DOMAIN doc.terms :
          doc.terms[k].type[1] \in DOMAIN doc.prefixes \cup {"@"}
    THEN [graph |-> AddAll(g, JsonLdTriples(doc)), error |-> FALSE]
    ELSE [graph |-> g, error |-> TRUE]

\* The JSON-LD parser decodes the whole text as JSON first; text that is not
\* JSON raises before any triple is produced.
JsonLdFeed(g, doc) ==
  IF doc.wellformed
    THEN [graph |-> AddAll(g, JsonLdTriples(doc)), error |-> FALSE]
    ELSE [graph |-> g, error |-> TRUE]

\* GraphParse that empties the graph when the parser raises.
GraphParse_ClearOnError(g, doc, n) ==
  LET result == IF doc.format = "turtle" THEN TurtleFeed(g, doc, 1, n)
                ELSE JsonLdFeed(g, doc)
  IN  IF result.error THEN [graph |-> {}, error |-> TRUE] ELSE result

\* Graph.parse(data=doc, format=doc.format) on a graph holding g.
GraphParse(g, doc, n) ==
  IF doc.format = "turtle" THEN TurtleFeed(g, doc, 1, n) ELSE JsonLdFeed(g, doc)

\* Blank nodes a parse of doc mints.
Minted(doc) == IF doc.format = "turtle" THEN doc.anons ELSE 0

(***************************************************************************)
(* SPARQL: property paths, basic graph patterns, CONSTRUCT                 *)
(*   <<"link", iri>>      the predicate iri                                *)
(*   <<"inv", path>>      ^path                                            *)
(*   <<"seq", p1, p2>>    p1 / p2                                          *)
(***************************************************************************)
Link(iri) == <<"link", iri>>

Inv(path) == <<"inv", path>>

SeqPath(p1, p2) == <<"seq", p1, p2>>

\* The pairs <<x, y>> of nodes of g that the path connects.
RECURSIVE EvalPath(_, _)
\* EvalPath with ^path read as path.
EvalPath_NoInverse(g, path) ==
  CASE path[1] = "link" -> {<<t[1], t[3]>> : t \in {x \in g : x[2] = path[2]}}
    [] path[1] = "inv"  -> EvalPath(g, path[2])
    [] path[1] = "seq"  ->
         LET left  == EvalPath(g, path[2])
             right == EvalPath(g, path[3])
         IN  {<<pq[1][1], pq[2][2]>> :
                pq \in {x \in left \X right : x[1][2] = x[2][1]}}

\* EvalPath whose predicate step follows every triple, whatever its predicate.
EvalPath_AnyPredicate(g, path) ==
  CASE path[1] = "link" -> {<<t[1], t[3]>> : t \in g}
    [] path[1] = "inv"  -> {<<pr[2], pr[1]>> : pr \in EvalPath(g, path[2])}
    [] path[1] = "seq"  ->
         LET left  == EvalPath(g, path[2])
             right == EvalPath(g, path[3])
         IN  {<<pq[1][1], pq[2][2]>> :
                pq \in {x \in left \X right : x[1][2] = x[2][1]}}

EvalPath(g, path) ==
  CASE path[1] = "link" -> {<<t[1], t[3]>> : t \in {x \in g : x[2] = path[2]}}
    [] path[1] = "inv"  -> {<<pr[2], pr[1]>> : pr \in EvalPath(g, path[2])}
    [] path[1] = "seq"  ->
         LET left  == EvalPath(g, path[2])
             right == EvalPath(g, path[3])
         IN  {<<pq[1][1], pq[2][2]>> :
                pq \in {x \in left \X right : x[1][2] = x[2][1]}}

\* Compatible without the check that a bound variable keeps its value.
Compatible_Unchecked(mu, t, node) ==
  IF IsVar(t) THEN TRUE ELSE t = node

\* A pattern position agrees with a node under the solution mu.
Compatible(mu, t, node) ==
  IF IsVar(t) THEN (t[3] \in DOMAIN mu => mu[t[3]] = node) ELSE t = node

Bind(mu, t, node) ==
  IF IsVar(t) /\ t[3] \notin DOMAIN mu THEN mu @@ (t[3] :> node) ELSE mu

\* Join of the solutions so far with one triple pattern <<s, path, o>>.
Join(g, sols, pat) ==
  {Bind(Bind(x[1], pat[1], x[2][1]), pat[3], x[2][2]) :
     x \in {y \in sols \X EvalPath(g, pat[2]) :
              /\ Compatible(y[1], pat[1], y[2][1])
              /\ Compatible(Bind(y[1], pat[1], y[2][1]), pat[3], y[2][2])}}

RECURSIVE EvalBGP(_, _, _, _)
EvalBGP(g, pats, i, sols) ==
  IF i > Len(pats) THEN sols
  ELSE EvalBGP(g, pats, i + 1, Join(g, sols, pats[i]))

Subst(mu, t) == IF IsVar(t) THEN mu[t[3]] ELSE t

\* CONSTRUCT { template } WHERE { pats }
Construct(g, template, pats) ==
  {<<Subst(mu, template[1]), Subst(mu, template[2]), Subst(mu, template[3])>> :
     mu \in EvalBGP(g, pats, 1, {<<>>})}

\* CONSTRUCT { ?position geom:as-seen-by ?frame . }
ConstructTemplate == <<Var("position"), Geom("as-seen-by"), Var("frame")>>

\* ?posCoord a geom:PositionCoordinate, geom:PositionReference ;
\*     geom:of-position ?position ; geom:as-seen-by ?frame .
WhereTypeFirst ==
  << <<Var("posCoord"), Link(rdf_type), Geom("PositionCoordinate")>>,
     <<Var("posCoord"), Link(rdf_type), Geom("PositionReference")>>,
     <<Var("posCoord"), Link(Geom("of-position")), Var("position")>>,
     <<Var("posCoord"), Link(Geom("as-seen-by")), Var("frame")>> >>

\* ?position a geom:Position ; ^geom:of-position ?posCoord .
\* ?posCoord a geom:PositionReference ; geom:as-seen-by ?frame .
WherePositionFirst ==
  << <<Var("position"), Link(rdf_type), Geom("Position")>>,
     <<Var("position"), Inv(Link(Geom("of-position"))), Var("posCoord")>>,
     <<Var("posCoord"), Link(rdf_type), Geom("PositionReference")>>,
     <<Var("posCoord"), Link(Geom("as-seen-by")), Var("frame")>> >>

\* ?position a geom:Position ; ^geom:of-position / geom:as-seen-by ?frame .
WherePositionChain ==
  << <<Var("position"), Link(rdf_type), Geom("Position")>>,
     <<Var("position"),
       SeqPath(Inv(Link(Geom("of-position"))), Link(Geom("as-seen-by"))),
       Var("frame")>> >>

\* The three values q_res takes in the query cell, in the order printed.
construct_query(g) ==
  << Construct(g, ConstructTemplate, WhereTypeFirst),
     Construct(g, ConstructTemplate, WherePositionFirst),
     Construct(g, ConstructTemplate, WherePositionChain) >>

(***************************************************************************)
(* RDFS inference (inference="rdfs"): the entailment rules rdf1, rdfs4a,   *)
(* rdfs4b, rdfs9 and rdfs11, applied until nothing new is entailed.        *)
(***************************************************************************)
Objects(g, s, p) == {t[3] : t \in {x \in g : x[1] = s /\ x[2] = p}}

rdfs_subClassOf == IRI(RDFS, "subClassOf")

RdfsStep(g) ==
  LET types == {x \in g : x[2] = rdf_type}
      subs  == {x \in g : x[2] = rdfs_subClassOf}
  IN  g \cup {<<t[2], rdf_type, IRI(RDF, "Property")>> : t \in g}
        \cup {<<t[1], rdf_type, IRI(RDFS, "Resource")>> : t \in g}
        \cup {<<t[3], rdf_type, IRI(RDFS, "Resource")>> :
                t \in {x \in g : x[3][1] # "lit"}}
        \cup {<<tc[1][1], rdf_type, tc[2][3]>> :
                tc \in {x \in types \X subs : x[1][3] = x[2][1]}}
        \cup {<<cc[1][1], rdfs_subClassOf, cc[2][3]>> :
                cc \in {x \in subs \X subs : x[1][3] = x[2][1]}}

RECURSIVE RdfsClosure(_)
RdfsClosure(g) ==
  LET next == RdfsStep(g) IN IF next = g THEN g ELSE RdfsClosure(next)

(***************************************************************************)
(* SHACL validation                                                        *)
(***************************************************************************)
NoValue == <<"none", "", "", "">>

\* The integer a count literal denotes.
IntValue(lit) ==
  CASE lit[4] = "0" -> 0 [] lit[4] = "1" -> 1 [] lit[4] = "2" -> 2 [] OTHER -> 3

\* Classes reachable from the classes in cs by rdfs:subClassOf, cs included.
RECURSIVE SuperClasses(_, _)
SuperClasses(dg, cs) ==
  LET next == cs \cup UNION {Objects(dg, c, rdfs_subClassOf) : c \in cs}
  IN  IF next = cs THEN cs ELSE SuperClasses(dg, next)

\* node is a SHACL instance of class in the data graph.
HasClass(dg, node, class) ==
  class \in SuperClasses(dg, Objects(dg, node, rdf_type))

\* Shapes with a target declaration.
TargetedShapes(sg) == {t[1] : t \in {x \in sg : x[2] = Sh("targetClass")}}

\* FocusNodes that takes every typed node, whatever the target class.
FocusNodes_AllTyped(dg, sg, shape) ==
  {t[1] : t \in {x \in dg : x[2] = rdf_type}}

\* sh:targetClass: the nodes of the data graph that are instances of a target
\* class of the shape.
FocusNodes(dg, sg, shape) ==
  {t[1] : t \in {x \in dg : /\ x[2] = rdf_type
                            /\ \E c \in Objects(sg, shape, Sh("targetClass")) :
                                 HasClass(dg, x[1], c)}}

\* PropertyShapes that follows sh:property to inline blank nodes only.
PropertyShapes_InlineOnly(sg, shape) ==
  {o \in Objects(sg, shape, Sh("property")) : o[1] = "bnode"}

\* The property shapes of a node shape: inline blank nodes and shapes
\* referred to by IRI alike.
PropertyShapes(sg, shape) == Objects(sg, shape, Sh("property"))

ValueNodes(dg, sg, ps, focus) ==
  UNION {Objects(dg, focus, path) : path \in Objects(sg, ps, Sh("path"))}

Violation(kind, ps, focus, path, value) ==
  [kind |-> kind, sourceShape |-> ps, focus |-> focus, path |-> path,
   value |-> value]

\* PropertyShapeResults with sh:minCount read as an exclusive bound.
PropertyShapeResults_MinExclusive(dg, sg, ps, focus) ==
  LET values == ValueNodes(dg, sg, ps, focus)
      paths  == Objects(sg, ps, Sh("path"))
  IN  {Violation("MinCountConstraintComponent", ps, focus, pm[1], NoValue) :
         pm \in {x \in paths \X Objects(sg, ps, Sh("minCount")) :
                   Cardinality(values) <= IntValue(x[2])}}
      \cup
      {Violation("MaxCountConstraintComponent", ps, focus, pm[1], NoValue) :
         pm \in {x \in paths \X Objects(sg, ps, Sh("maxCount")) :
                   Cardinality(values) > IntValue(x[2])}}
      \cup
      {Violation("ClassConstraintComponent", ps, focus, pcv[1], pcv[3]) :
         pcv \in {x \in paths \X Objects(sg, ps, Sh("class")) \X values :
                    ~HasClass(dg, x[3], x[2])}}

\* The results of one property shape on one focus node.
PropertyShapeResults(dg, sg, ps, focus) ==
  LET values == ValueNodes(dg, sg, ps, focus)
      paths  == Objects(sg, ps, Sh("path"))
  IN  {Violation("MinCountConstraintComponent", ps, focus, pm[1], NoValue) :
         pm \in {x \in paths \X Objects(sg, ps, Sh("minCount")) :
                   Cardinality(values) < IntValue(x[2])}}
      \cup
      {Violation("MaxCountConstraintComponent", ps, focus, pm[1], NoValue) :
         pm \in {x \in paths \X Objects(sg, ps, Sh("maxCount")) :
                   Cardinality(values) > IntValue(x[2])}}
      \cup
      {Violation("ClassConstraintComponent", ps, focus, pcv[1], pcv[3]) :
         pcv \in {x \in paths \X Objects(sg, ps, Sh("class")) \X values :
                    ~HasClass(dg, x[3], x[2])}}

\* Every result of every targeted shape.
ValidationResults(dg, sg) ==
  UNION {PropertyShapeResults(dg, sg, sf[1], sf[2]) :
           sf \in UNION {PropertyShapes(sg, shape) \X FocusNodes(dg, sg, shape) :
                           shape \in TargetedShapes(sg)}}

\* PropertyShapeConforms with sh:maxCount read as an exclusive bound.
PropertyShapeConforms_MaxExclusive(dg, sg, ps, focus) ==
  LET values == ValueNodes(dg, sg, ps, focus)
  IN  /\ \A m \in Objects(sg, ps, Sh("minCount")) :
           Cardinality(values) >= IntValue(m)
      /\ \A m \in Objects(sg, ps, Sh("maxCount")) :
           Cardinality(values) < IntValue(m)
      /\ \A c \in Objects(sg, ps, Sh("class")) :
           \A v \in values : HasClass(dg, v, c)

\* One property shape is satisfied by one focus node.
PropertyShapeConforms(dg, sg, ps, focus) ==
  LET values == ValueNodes(dg, sg, ps, focus)
  IN  /\ \A m \in Objects(sg, ps, Sh("minCount")) :
           Cardinality(values) >= IntValue(m)
      /\ \A m \in Objects(sg, ps, Sh("maxCount")) :
           Cardinality(values) <= IntValue(m)
      /\ \A c \in Objects(sg, ps, Sh("class")) :
           \A v \in values : HasClass(dg, v, c)

\* Conforms that is satisfied by one conformant shape.
Conforms_AnyShape(dg, sg) ==
  \E shape \in TargetedShapes(sg) :
    \A focus \in FocusNodes(dg, sg, shape) :
      \A ps \in PropertyShapes(sg, shape) :
        PropertyShapeConforms(dg, sg, ps, focus)

\* The conforms flag: no shape is found non-conformant.
Conforms(dg, sg) ==
  \A shape \in TargetedShapes(sg) :
    \A focus \in FocusNodes(dg, sg, shape) :
      \A ps \in PropertyShapes(sg, shape) :
        PropertyShapeConforms(dg, sg, ps, focus)

\* pyshacl_validate with inference run on the caller's data graph (inplace).
pyshacl_validate_inplace(dg, sg) ==
  LET working == RdfsClosure(dg)
  IN  [ data_graph  |-> working,
        shacl_graph |-> sg,
        conforms    |-> Conforms(working, sg),
        results     |-> ValidationResults(working, sg) ]

\* pyshacl.validate(data_graph, shacl_graph=sg, inference="rdfs"), inplace
\* left at its default: inference expands a working copy of the data graph.
\* data_graph and shacl_graph are the caller's two graphs after the call.
pyshacl_validate(dg, sg) ==
  LET working == RdfsClosure(dg)
  IN  [ data_graph  |-> dg,
        shacl_graph |-> sg,
        conforms    |-> Conforms(working, sg),
        results     |-> ValidationResults(working, sg) ]

(***************************************************************************)
(* The notebook's operations                                               *)
(***************************************************************************)
\* The documents given to position_graph, to invalid_graph and to shacl_g.
PositionDocs == {"jsonld_graph_str", "jsonld_coordinate_extension",
                 "jsonld_truncated"}

InvalidDocs == {"jsonld_graph_str", "jsonld_coordinate_invalid"}

ShapeDocs == {"shacl_str", "shacl_undeclared_xsd"}

Doc(name) ==
  CASE name = "jsonld_graph_str"            -> jsonld_graph_str
    [] name = "jsonld_coordinate_extension" -> jsonld_coordinate_extension
    [] name = "jsonld_coordinate_invalid"   -> jsonld_coordinate_invalid
    [] name = "jsonld_truncated"            -> jsonld_truncated
    [] name = "shacl_str"                   -> shacl_str
    [] name = "shacl_undeclared_xsd"        -> shacl_undeclared_xsd

\* What the caller sees of a parse: its return, or the error it raises.
Outcome(result) == IF result.error THEN "SyntaxError" ELSE "parse"

Init ==
  /\ position_graph = {}
  /\ invalid_graph = {}
  /\ shacl_g = {}
  /\ bnodes = 0
  /\ q_res = <<>>
  /\ conforms = TRUE
  /\ report = {}
  /\ last = "init"

\* position_graph = rdflib.Graph()
NewPositionGraph ==
  /\ position_graph' = {}
  /\ last' = "new"
  /\ UNCHANGED <<invalid_graph, shacl_g, bnodes, q_res, conforms, report>>

\* invalid_graph = rdflib.Graph()
NewInvalidGraph ==
  /\ invalid_graph' = {}
  /\ last' = "new"
  /\ UNCHANGED <<position_graph, shacl_g, bnodes, q_res, conforms, report>>

\* shacl_g = rdflib.Graph()
NewShaclGraph ==
  /\ shacl_g' = {}
  /\ last' = "new"
  /\ UNCHANGED <<position_graph, invalid_graph, bnodes, q_res, conforms, report>>

\* position_graph.parse(data=d, format="json-ld")
ParsePosition(d) ==
  LET result == GraphParse(position_graph, Doc(d), bnodes)
  IN  /\ position_graph' = result.graph
      /\ last' = Outcome(result)
      /\ UNCHANGED <<invalid_graph, shacl_g, bnodes, q_res, conforms, report>>

\* invalid_graph.parse(data=d, format="json-ld")
ParseInvalid(d) ==
  LET result == GraphParse(invalid_graph, Doc(d), bnodes)
  IN  /\ invalid_graph' = result.graph
      /\ last' = Outcome(result)
      /\ UNCHANGED <<position_graph, shacl_g, bnodes, q_res, conforms, report>>

\* shacl_g.parse(data=d, format="turtle")
ParseShapes(d) ==
  LET result == GraphParse(shacl_g, Doc(d), bnodes)
  IN  /\ bnodes + Minted(Doc(d)) <= MaxBNodes
      /\ shacl_g' = result.graph
      /\ bnodes' = bnodes + Minted(Doc(d))
      /\ last' = Outcome(result)
      /\ UNCHANGED <<position_graph, invalid_graph, q_res, conforms, report>>

\* q_res = position_graph.query(construct_query), for the three queries
Query ==
  /\ q_res' = construct_query(position_graph)
  /\ last' = "query"
  /\ UNCHANGED <<position_graph, invalid_graph, shacl_g, bnodes, conforms, report>>

\* conforms, _, report_text = pyshacl.validate(position_graph, shacl_graph=shacl_g, ...)
ValidatePosition ==
  \E r \in {pyshacl_validate(position_graph, shacl_g)} :
      /\ position_graph' = r.data_graph
      /\ shacl_g' = r.shacl_graph
      /\ conforms' = r.conforms
      /\ report' = r.results
      /\ last' = "validate_position"
      /\ UNCHANGED <<invalid_graph, bnodes, q_res>>

\* conforms, _, report_text = pyshacl.validate(invalid_graph, shacl_graph=shacl_g, ...)
ValidateInvalid ==
  \E r \in {pyshacl_validate(invalid_graph, shacl_g)} :
      /\ invalid_graph' = r.data_graph
      /\ shacl_g' = r.shacl_graph
      /\ conforms' = r.conforms
      /\ report' = r.results
      /\ last' = "validate_invalid"
      /\ UNCHANGED <<position_graph, bnodes, q_res>>

Next ==
  \/ NewPositionGraph
  \/ NewInvalidGraph
  \/ NewShaclGraph
  \/ \E d \in PositionDocs : ParsePosition(d)
  \/ \E d \in InvalidDocs : ParseInvalid(d)
  \/ \E d \in ShapeDocs : ParseShapes(d)
  \/ Query
  \/ ValidatePosition
  \/ ValidateInvalid

Spec == Init /\ [][Next]_vars

(***************************************************************************)
(* Validation and querying over arbitrary data graphs: the data graph is   *)
(* any set of the triples below, the shapes graph is shacl_str or its      *)
(* inline form.                                                            *)
(***************************************************************************)
TripleUniverse ==
  { <<Node("position-coord-box-table"), rdf_type, Geom("PositionReference")>>,
    <<Node("position-coord-box-table"), rdf_type, Geom("PositionCoordinate")>>,
    <<Node("position-box-table"), rdf_type, Geom("Position")>>,
    <<Node("frame-table"), rdf_type, Geom("Frame")>>,
    <<Node("position-coord-box-table"), Geom("of-position"), Node("position-box-table")>>,
    <<Node("position-coord-box-table"), Geom("of-position"), Node("frame-table")>>,
    <<Node("position-coord-box-table"), Geom("as-seen-by"), Node("frame-table")>>,
    <<Node("position-coord-box-table"), Geom("as-seen-by"), Node("position-box-table")>>,
    <<Node("box-distance"), Geom("of-position"), Node("position-box-table")>>,
    <<Geom("PositionCoordinate"), rdfs_subClassOf, Geom("PositionReference")>> }

ShapesReferenced == GraphParse({}, shacl_str, 0).graph

ShapesInline == GraphParse({}, shacl_inline, 0).graph

InitGraphs ==
  /\ position_graph \in SUBSET TripleUniverse
  /\ invalid_graph = {}
  /\ \E d \in {shacl_str, shacl_inline} :
       /\ shacl_g = GraphParse({}, d, 0).graph
       /\ bnodes = Minted(d)
  /\ q_res = <<>>
  /\ conforms = TRUE
  /\ report = {}
  /\ last = "init"

NextGraphs == Query \/ ValidatePosition

SpecGraphs == InitGraphs /\ [][NextGraphs]_vars

(***************************************************************************)
(* The example graphs of the notebook                                      *)
(***************************************************************************)
\* position_graph after the base document and the coordinate extension.
ExampleGraph ==
  GraphParse(GraphParse({}, jsonld_graph_str, 0).graph,
             jsonld_coordinate_extension, 0).graph

\* invalid_graph after the base document and the invalid coordinate document.
MutatedGraph ==
  GraphParse(GraphParse({}, jsonld_graph_str, 0).graph,
             jsonld_coordinate_invalid, 0).graph

\* shacl_g after one parse of shacl_str, whatever label its blank node got.
ExampleShapes == {GraphParse({}, shacl_str, k).graph : k \in 0..(MaxBNodes - 1)}

PositionAsSeenByFrame ==
  {<<Node("position-box-table"), Geom("as-seen-by"), Node("frame-table")>>}

\* C1: on the example graph each of the three CONSTRUCT queries returns
\* exactly {(position-box-table, geom:as-seen-by, frame-table)}.
C1_ExampleQueries ==
  (last = "query" /\ position_graph = ExampleGraph)
    => q_res = <<PositionAsSeenByFrame, PositionAsSeenByFrame,
                 PositionAsSeenByFrame>>

C1_Witness ==
  /\ last = "query"
  /\ position_graph = ExampleGraph
  /\ Len(q_res) = 3
  /\ q_res[3] = PositionAsSeenByFrame

\* C2: validating the mutated graph against the example shapes gives
\* conforms = false and exactly two violations on position-coord-box-table:
\* a ClassConstraintComponent on of-position with value frame-table and a
\* MinCountConstraintComponent on as-seen-by; none counts of-position.
C2_MutatedReport ==
  (last = "validate_invalid" /\ invalid_graph = MutatedGraph
     /\ shacl_g \in ExampleShapes)
    => /\ conforms = FALSE
       /\ Cardinality(report) = 2
       /\ \E v \in report :
            /\ v.kind = "ClassConstraintComponent"
            /\ v.focus = Node("position-coord-box-table")
            /\ v.path = Geom("of-position")
            /\ v.value = Node("frame-table")
       /\ \E v \in report :
            /\ v.kind = "MinCountConstraintComponent"
            /\ v.focus = Node("position-coord-box-table")
            /\ v.path = Geom("as-seen-by")
            /\ v.sourceShape = Geom("AsSeenByShape")
       /\ \A v \in report :
            v.path = Geom("of-position") => v.kind = "ClassConstraintComponent"

C2_Witness ==
  /\ last = "validate_invalid"
  /\ invalid_graph = MutatedGraph
  /\ shacl_g \in ExampleShapes
  /\ Cardinality(report) = 2

\* C3: validating the example graph against the example shapes gives
\* conforms = true and no violation.
C3_ExampleConforms ==
  (last = "validate_position" /\ position_graph = ExampleGraph
     /\ shacl_g \in ExampleShapes)
    => (conforms = TRUE /\ report = {})

C3_Witness ==
  /\ last = "validate_position"
  /\ position_graph = ExampleGraph
  /\ shacl_g \in ExampleShapes
  /\ conforms = TRUE

\* Every node with both an of-position and an as-seen-by value is typed
\* PositionCoordinate and PositionReference, and each of-position value of
\* such a node is typed Position.
CoordinatesTyped(g) ==
  \A t \in {x \in g : x[2] = Geom("of-position")} :
    Objects(g, t[1], Geom("as-seen-by")) # {}
      => /\ <<t[1], rdf_type, Geom("PositionCoordinate")>> \in g
         /\ <<t[1], rdf_type, Geom("PositionReference")>> \in g
         /\ <<t[3], rdf_type, Geom("Position")>> \in g

\* C4 as claimed: on every data graph the three queries return the same
\* result set.
C4_QueriesEquivalent ==
  last = "query" => (q_res[1] = q_res[2] /\ q_res[2] = q_res[3])

\* C4 as amended: the position-first query never returns more than the
\* chained one, and the three queries return the same set on every data
\* graph whose coordinate nodes and positions carry the types the type-first
\* and position-first patterns ask for.
C4_QueriesEquivalentWhenTyped ==
  last = "query"
    => /\ q_res[2] \subseteq q_res[3]
       /\ CoordinatesTyped(position_graph)
            => (q_res[1] = q_res[2] /\ q_res[2] = q_res[3])

C4_Witness ==
  /\ last = "query"
  /\ CoordinatesTyped(position_graph)
  /\ q_res[1] # {}
  /\ q_res[1] = q_res[3]

Observable(results) ==
  {<<v.kind, v.focus, v.path, v.value>> : v \in results}

\* C6: on every data graph, shacl_str (geom:AsSeenByShape referred to by
\* IRI) and its inline form give the same violations (kind, focus node,
\* path, value) and the same conforms flag.
C6_ReferenceEqualsInline ==
  last = "validate_position"
    => LET other == IF shacl_g = ShapesReferenced THEN ShapesInline
                    ELSE ShapesReferenced
           r     == pyshacl_validate(position_graph, other)
       IN  /\ Observable(report) = Observable(r.results)
           /\ conforms = r.conforms

C6_Witness ==
  /\ last = "validate_position"
  /\ shacl_g = ShapesReferenced
  /\ \E v \in report : v.sourceShape = Geom("AsSeenByShape")

\* C8: conforms is true exactly when the report holds no violation.
C8_ConformsIffNoViolation ==
  conforms <=> (report = {})

C8_Witness ==
  /\ last = "validate_position"
  /\ conforms = FALSE
  /\ report # {}

\* Some earlier parse of doc, whatever labels its blank nodes got, put all its
\* triples into g.
AlreadyParsed(g, doc) ==
  \E k \in 0..MaxBNodes :
    /\ ~GraphParse({}, doc, k).error
    /\ GraphParse({}, doc, k).graph \subseteq g

UnexpandedX ==
  <<Node("position-coord-box-table"), Geom("x"),
    Literal("-0.000648", IRI("xsd:", "double"))>>

\* C9 as claimed: the coordinate extension, whose @context uses xsd:double
\* without declaring xsd, is rejected with a SyntaxError and yields no triple.
C9_UndeclaredPrefixRejected ==
  [][ParsePosition("jsonld_coordinate_extension")
       => (last' = "SyntaxError" /\ position_graph' = position_graph)]_vars

\* C9 as amended: a Turtle document that uses an undeclared prefix fails with
\* a SyntaxError; a JSON-LD document does not: the coordinate extension is
\* accepted, its triples are added and its literals keep the datatype IRI
\* xsd:double as written.
C9_UndeclaredPrefixByFormat ==
  [][/\ ParseShapes("shacl_undeclared_xsd") => last' = "SyntaxError"
     /\ ParsePosition("jsonld_coordinate_extension")
          => /\ last' = "parse"
             /\ JsonLdTriples(jsonld_coordinate_extension) \subseteq position_graph'
             /\ UnexpandedX \in position_graph']_vars

C9_Witness ==
  /\ last = "parse"
  /\ UnexpandedX \in position_graph
  /\ JsonLdTriples(jsonld_coordinate_extension) \subseteq position_graph

\* C10 as claimed: a parse that fails on a graph already holding triples
\* leaves the graph's triple set as it was.
C10_FailedParseAtomic ==
  [][last' = "SyntaxError"
       => /\ position_graph # {} => position_graph' = position_graph
          /\ invalid_graph # {} => invalid_graph' = invalid_graph
          /\ shacl_g # {} => shacl_g' = shacl_g]_vars

\* C10 as amended: a failed parse removes nothing that was loaded: the graph
\* still holds every triple it held before.  A JSON-LD text that is not JSON
\* leaves the graph exactly as it was; a Turtle document leaves behind the
\* statements read before the error.
C10_FailedParseKeepsLoaded ==
  [][last' = "SyntaxError"
       => /\ position_graph' = position_graph
          /\ invalid_graph' = invalid_graph
          /\ shacl_g \subseteq shacl_g'
          /\ shacl_g' \subseteq
               shacl_g \cup GraphParse({}, shacl_undeclared_xsd, 0).graph]_vars

\* A failed parse into a shapes graph that holds shacl_str.
C10_Witness ==
  /\ last = "SyntaxError"
  /\ \E g \in ExampleShapes : g \subseteq shacl_g
  /\ <<Geom("OriginShape"), Sh("path"), Geom("origin")>> \in shacl_g

\* position_graph after the base document alone: two Points, one Position,
\* one PositionLength; no coordinate node and no as-seen-by triple.
BaseGraph == GraphParse({}, jsonld_graph_str, 0).graph

\* C11: on the graph holding only the base document each of the three
\* CONSTRUCT queries returns the empty graph, and the query call returns
\* rather than raising.
C11_NoMatchIsEmpty ==
  (last = "query" /\ position_graph = BaseGraph)
    => q_res = <<{}, {}, {}>>

C11_Witness ==
  /\ last = "query"
  /\ position_graph = BaseGraph
  /\ Cardinality(position_graph) = 8
  /\ Len(q_res) = 3
  /\ q_res[1] = {}

\* The report's entries of one kind from one property shape on one node.
Reported(kind, ps, node) ==
  {v \in report : v.kind = kind /\ v.sourceShape = ps /\ v.focus = node}

\* A MinCount entry is reported exactly when the node has fewer values on the
\* path than sh:minCount, a MaxCount entry exactly when it has more than
\* sh:maxCount; the values are counted in the caller's data graph.
CountsReportedExactly(ps, node) ==
  LET count == Cardinality(ValueNodes(position_graph, shacl_g, ps, node))
  IN  /\ Reported("MinCountConstraintComponent", ps, node) # {}
           <=> \E m \in Objects(shacl_g, ps, Sh("minCount")) : count < IntValue(m)
      /\ Reported("MaxCountConstraintComponent", ps, node) # {}
           <=> \E m \in Objects(shacl_g, ps, Sh("maxCount")) : count > IntValue(m)

\* The data graph asserts the node to have a target class of the shape.
TypedWithTarget(node, shape) ==
  \E c \in Objects(shacl_g, shape, Sh("targetClass")) :
    <<node, rdf_type, c>> \in position_graph

\* The node has a target class of the shape, asserted or through
\* rdfs:subClassOf.
InstanceOfTarget(node, shape) ==
  \E c \in Objects(shacl_g, shape, Sh("targetClass")) :
    HasClass(position_graph, node, c)

NodesOf(g) == {t[1] : t \in g} \cup {t[3] : t \in g}

====
